---- MODULE Spec2Model ----
(***************************************************************************)
(* A model of acalib's Cube (src/core/cube.py): construction from 4-D      *)
(* data, region resolution (_slice), get_slice, get_features, get_stacked, *)
(* add_flux, max, min and empty_like, driven by a caller that issues one   *)
(* call at a time (the projection loop of src/synthetic/imc.py).           *)
(*                                                                         *)
(* Indices are 0-based as in Python; an index or a shape is a tuple.       *)
(* An n-d array is a record [shape |-> tuple, v |-> [Idx(shape) -> value]].*)
(* A float is an integer: the finite values -MaxFinite..MaxFinite, then    *)
(* PInf, NInf and NaN.  A finite result beyond MaxFinite overflows to an   *)
(* infinity, as IEEE-754 arithmetic does beyond the largest double.        *)
(***************************************************************************)
EXTENDS Integers, Sequences, FiniteSets

\* ------------------------------------------------------------------ bounds
\* longest axis of a cube
MaxDim == 2
\* how far a requested bound may lie outside [0, shape[i]]
MaxOver == 1
\* largest finite sample value (scaled-down largest double)
MaxFinite == 2

\* ------------------------------------------------------------------ floats
PInf == MaxFinite + 1
NInf == 0 - PInf
NaN == MaxFinite + 2

isnan(x) == x = NaN
isfinite(x) == x # NaN /\ x # PInf /\ x # NInf

\* rounding of an exact result to the representable range
Round(n) == IF n > MaxFinite THEN PInf ELSE IF n < 0 - MaxFinite THEN NInf ELSE n

\* IEEE addition: NaN propagates, inf + -inf is NaN
fadd(x, y) ==
  IF isnan(x) \/ isnan(y) THEN NaN
  ELSE IF (x = PInf /\ y = NInf) \/ (x = NInf /\ y = PInf) THEN NaN
  ELSE IF x = PInf \/ y = PInf THEN PInf
  ELSE IF x = NInf \/ y = NInf THEN NInf
  ELSE Round(x + y)

\* IEEE multiplication by a finite integer factor s
fmul(x, s) ==
  IF isnan(x) THEN NaN
  ELSE IF ~isfinite(x)
       THEN (IF s = 0 THEN NaN ELSE IF s > 0 THEN x ELSE 0 - x)
       ELSE Round(x * s)

\* ------------------------------------------------------------------ arrays
Idx(shape) ==
  IF Len(shape) = 3
  THEN {<<a, b, c>> : a \in 0 .. shape[1] - 1, b \in 0 .. shape[2] - 1,
                      c \in 0 .. shape[3] - 1}
  ELSE IF Len(shape) = 2
  THEN {<<a, b>> : a \in 0 .. shape[1] - 1, b \in 0 .. shape[2] - 1}
  ELSE {<<p, a, b, c>> : p \in 0 .. shape[1] - 1, a \in 0 .. shape[2] - 1,
                         b \in 0 .. shape[3] - 1, c \in 0 .. shape[4] - 1}

Arrays(shape, vals) == {[shape |-> shape, v |-> f] : f \in [Idx(shape) -> vals]}

\* np.zeros_like
zeros_like(a) == [shape |-> a.shape, v |-> [c \in Idx(a.shape) |-> 0]]

\* np.unravel_index: the index at position k in C (row-major) order
unravel_index(k, shape) ==
  <<k \div (shape[2] * shape[3]), (k \div shape[3]) % shape[2], k % shape[3]>>
size(shape) == shape[1] * shape[2] * shape[3]

\* slice(start, stop).indices(n): Python's resolution of a slice on an axis
\* of length n (a negative bound counts from the end, then both are clipped)
SliceIndices(sl, n) ==
  LET norm(x) == IF x < 0 THEN (IF x + n < 0 THEN 0 ELSE x + n)
                 ELSE (IF x > n THEN n ELSE x)
  IN <<norm(sl[1]), norm(sl[2])>>

\* number of cells a resolved <<start, stop>> selects
Extent(r) == IF r[2] > r[1] THEN r[2] - r[1] ELSE 0

\* the cells of array a that a[sli[1], sli[2], sli[3]] addresses, per axis
View(shape, sli) == [i \in 1 .. 3 |-> SliceIndices(sli[i], shape[i])]
ViewShape(rg) == [i \in 1 .. 3 |-> Extent(rg[i])]

\* a[sli[1], sli[2], sli[3]] for three slices
getitem(a, sli) ==
  LET rg == View(a.shape, sli)
      sh == ViewShape(rg)
  IN [shape |-> sh,
      v |-> [c \in Idx(sh) |-> a.v[[i \in 1 .. 3 |-> rg[i][1] + c[i]]]]]

\* ------------------------------------------------------------ construction
\* data.sum(axis=0) of a 4-d array
RECURSIVE SumPlanes(_, _, _)
SumPlanes(raw, c, p) ==
  IF p = 0 THEN raw.v[<<0>> \o c]
  ELSE fadd(SumPlanes(raw, c, p - 1), raw.v[<<p>> \o c])

sum_axis0(raw) ==
  LET sh == Tail(raw.shape)
  IN [shape |-> sh,
      v |-> [c \in Idx(sh) |-> SumPlanes(raw, c, raw.shape[1] - 1)]]

\* Cube.__init__(data, meta): the new object, or err when it raises TypeError.
\* The mask is taken from the data as given, before the Stokes axis is summed;
\* only its shape is kept, no method of Cube reads its contents.
Cube_init(raw, m) ==
  IF Len(raw.shape) # 4
  THEN [err |-> TRUE]
  ELSE LET s == sum_axis0(raw)
       IN [err |-> FALSE,
           data |-> [shape |-> s.shape,
                     v |-> [c \in Idx(s.shape) |->
                              fadd(fmul(s.v[c], m.BSCALE), m.BZERO)]],
           mask |-> [shape |-> raw.shape],
           meta |-> m]

\* ------------------------------------------------------- region resolution
None == <<>>
any(b) == \E i \in 1 .. 3 : b[i]

llc_le(lower) == [i \in 1 .. 3 |-> lower[i] <= 0]
llc(lower) == [i \in 1 .. 3 |-> lower[i] < 0]
ulc(lower, shape) == [i \in 1 .. 3 |-> lower[i] > shape[i]]
luc(upper) == [i \in 1 .. 3 |-> upper[i] < 0]
uuc(upper, shape) == [i \in 1 .. 3 |-> upper[i] > shape[i]]

\* Cube._slice(lower, upper) on a cube of the given shape: the three
\* <<start, stop>> pairs, the number of warnings logged, and err when the
\* call raises.  self.data.shape is a tuple, and a tuple indexed by a boolean
\* array raises TypeError: both "correcting to max" branches raise right
\* after logging their warning.
_slice(shape, lower0, upper0) ==
  LET lower1 == IF lower0 = None THEN <<0, 0, 0>> ELSE lower0
      upper1 == IF upper0 = None THEN shape ELSE upper0
      c_ll == llc(lower1)
      c_ul == ulc(lower1, shape)
      c_lu == luc(upper1)
      c_uu == uuc(upper1, shape)
      w1 == IF any(c_ll) THEN 1 ELSE 0
      lower2 == IF any(c_ll)
                THEN [i \in 1 .. 3 |-> IF c_ll[i] THEN 0 ELSE lower1[i]]
                ELSE lower1
      w3 == IF any(c_lu) THEN 1 ELSE 0
      lower3 == IF any(c_lu)
                THEN [i \in 1 .. 3 |-> IF c_lu[i] THEN 0 ELSE lower2[i]]
                ELSE lower2
  IN IF any(c_ul)
     THEN [err |-> TRUE, warn |-> w1 + 1, sli |-> <<>>]
     ELSE IF any(c_uu)
     THEN [err |-> TRUE, warn |-> w1 + w3 + 1, sli |-> <<>>]
     ELSE [err |-> FALSE, warn |-> w1 + w3,
           sli |-> [i \in 1 .. 3 |-> <<lower3[i], upper1[i]>>]]

\* ------------------------------------------------------------- operations
\* Cube.get_slice(lower, upper)
get_slice(data, lower, upper) ==
  LET r == _slice(data.shape, lower, upper)
  IN IF r.err THEN [err |-> TRUE]
     ELSE [err |-> FALSE, out |-> getitem(data, r.sli)]

\* np.arange(start, stop)
arange(sl) == [k \in 1 .. (IF sl[2] > sl[1] THEN sl[2] - sl[1] ELSE 0) |-> sl[1] + k - 1]

\* self.wcs.wcs_pix2world(row, 0): the linear pixel-to-world mapping of the
\* header, per world axis: CRVAL + CDELT * (pixel - (CRPIX - 1))
wcs_pix2world(m, row) ==
  [i \in 1 .. 3 |-> m.CRVAL[i] + m.CDELT[i] * (row[i] - (m.CRPIX[i] - 1))]

\* Cube.get_features(lower, upper): one world-coordinate row per voxel
get_features(data, m, lower, upper) ==
  LET r == _slice(data.shape, lower, upper)
  IN IF r.err THEN [err |-> TRUE]
     ELSE LET x == arange(r.sli[1])
              y == arange(r.sli[2])
              z == arange(r.sli[3])
              n == Len(x) * Len(y) * Len(z)
              g(k) == unravel_index(k, <<Len(x), Len(y), Len(z)>>)
              ii(k) == <<z[g(k)[3] + 1], y[g(k)[2] + 1], x[g(k)[1] + 1]>>
          IN [err |-> FALSE,
              out |-> [k \in 1 .. n |-> wcs_pix2world(m, ii(k - 1))]]

\* np.nansum(a, axis=ax) of a 3-d array, ax in 0..2: NaN counts as zero
RECURSIVE NanSumTo(_, _, _, _)
NanSumTo(a, ax, c2, j) ==
  LET c == IF ax = 0 THEN <<j, c2[1], c2[2]>>
           ELSE IF ax = 1 THEN <<c2[1], j, c2[2]>>
           ELSE <<c2[1], c2[2], j>>
      x == IF isnan(a.v[c]) THEN 0 ELSE a.v[c]
  IN IF j < 0 THEN 0 ELSE fadd(NanSumTo(a, ax, c2, j - 1), x)

nansum(a, ax) ==
  LET sh == IF ax = 0 THEN <<a.shape[2], a.shape[3]>>
            ELSE IF ax = 1 THEN <<a.shape[1], a.shape[3]>>
            ELSE <<a.shape[1], a.shape[2]>>
  IN [shape |-> sh,
      v |-> [c2 \in Idx(sh) |-> NanSumTo(a, ax, c2, a.shape[ax + 1] - 1)]]

\* Cube.get_stacked(lower, upper, axes); self.data[sli] with the list sli
\* indexes as self.data[sli[0], sli[1], sli[2]]
get_stacked(data, lower, upper, axes) ==
  LET r == _slice(data.shape, lower, upper)
  IN IF r.err THEN [err |-> TRUE]
     ELSE [err |-> FALSE, out |-> nansum(getitem(data, r.sli), axes)]

\* self.data[sli] += patch on one cell
iadd_assign(x, y) == y
iadd(x, y) == fadd(x, y)

\* start and stop of the patch crop on one axis (add_flux, lines 98-101)
flux_lower(sl, n, fn) == IF sl[1] = 0 THEN fn - sl[2] ELSE 0
flux_upper(sl, n, fn) == IF sl[2] = n THEN sl[2] - sl[1] ELSE fn

\* Cube.add_flux(flux, lower, upper): the samples afterwards, err when the
\* call raises (from _slice, or ValueError when the cropped patch cannot be
\* broadcast to the region), and the region and patch crop it used.
\* self.data[sli] with the list sli indexes as self.data[sli[0], sli[1], sli[2]].
add_flux(data, flux, lower, upper) ==
  LET r == _slice(data.shape, lower, upper)
  IN IF r.err THEN [err |-> TRUE, data |-> data]
     ELSE LET sli == r.sli
              crop == [i \in 1 .. 3 |->
                         <<flux_lower(sli[i], data.shape[i], flux.shape[i]),
                           flux_upper(sli[i], data.shape[i], flux.shape[i])>>]
              patch == getitem(flux, crop)
              rg == View(data.shape, sli)
              sh == ViewShape(rg)
              fits == \A i \in 1 .. 3 :
                         patch.shape[i] = sh[i] \/ patch.shape[i] = 1
              inside(c) == \A i \in 1 .. 3 : rg[i][1] <= c[i] /\ c[i] < rg[i][2]
              src(c) == [i \in 1 .. 3 |->
                           IF patch.shape[i] = sh[i] THEN c[i] - rg[i][1] ELSE 0]
          IN IF ~fits THEN [err |-> TRUE, data |-> data]
             ELSE [err |-> FALSE,
                   data |-> [shape |-> data.shape,
                             v |-> [c \in Idx(data.shape) |->
                                      IF inside(c)
                                      THEN iadd(data.v[c], patch.v[src(c)])
                                      ELSE data.v[c]]],
                   region |-> rg,
                   crop |-> View(flux.shape, crop)]

\* a.ravel()
ravel(a) == [k \in 1 .. size(a.shape) |-> a.v[unravel_index(k - 1, a.shape)]]

\* np.argmax / np.argmin of a sequence without NaN: first extreme position
argmax(s) == CHOOSE k \in 0 .. Len(s) - 1 :
                /\ \A j \in 1 .. Len(s) : s[j] <= s[k + 1]
                /\ \A j \in 1 .. k : s[j] < s[k + 1]
argmin(s) == CHOOSE k \in 0 .. Len(s) - 1 :
                /\ \A j \in 1 .. Len(s) : s[j] >= s[k + 1]
                /\ \A j \in 1 .. k : s[j] > s[k + 1]

\* np.argmax on data holding NaN: NaN compares as the maximum
plain_argmax(a) ==
  LET s == ravel(a)
  IN IF \E j \in 1 .. Len(s) : isnan(s[j])
     THEN [err |-> FALSE,
           k |-> CHOOSE k \in 0 .. Len(s) - 1 :
                   isnan(s[k + 1]) /\ \A j \in 1 .. k : ~isnan(s[j])]
     ELSE [err |-> FALSE, k |-> argmax(s)]

\* np.nanargmax(a): NaN replaced by -inf, then argmax; ValueError if all NaN
nanargmax(a) ==
  LET s == ravel(a)
      t == [j \in 1 .. Len(s) |-> IF isnan(s[j]) THEN NInf ELSE s[j]]
  IN IF \A j \in 1 .. Len(s) : isnan(s[j])
     THEN [err |-> TRUE]
     ELSE [err |-> FALSE, k |-> argmax(t)]

\* np.nanargmin(a): NaN replaced by +inf, then argmin; ValueError if all NaN
nanargmin(a) ==
  LET s == ravel(a)
      t == [j \in 1 .. Len(s) |-> IF isnan(s[j]) THEN PInf ELSE s[j]]
  IN IF \A j \in 1 .. Len(s) : isnan(s[j])
     THEN [err |-> TRUE]
     ELSE [err |-> FALSE, k |-> argmin(t)]

\* Cube.max() and Cube.min(): (value, index)
Cube_max(data) ==
  LET r == nanargmax(data)
  IN IF r.err THEN [err |-> TRUE]
     ELSE LET index == unravel_index(r.k, data.shape)
          IN [err |-> FALSE, out |-> <<data.v[index], index>>]

Cube_min(data) ==
  LET r == nanargmin(data)
  IN IF r.err THEN [err |-> TRUE]
     ELSE LET index == unravel_index(r.k, data.shape)
          IN [err |-> FALSE, out |-> <<data.v[index], index>>]

\* Cube.empty_like()
empty_like(data, m) == Cube_init(zeros_like(data), m)

\* ------------------------------------------------------------ the inputs
\* cube shapes: one axis of any length up to MaxDim, the other two of length
\* one (a spectrum or an image row, as in the class docstring)
Shapes ==
  {s \in {<<a, b, c>> : a \in 1 .. MaxDim, b \in 1 .. MaxDim, c \in 1 .. MaxDim} :
     Cardinality({i \in 1 .. 3 : s[i] # 1}) <= 1}

\* lengths of the Stokes axis of the raw input
Planes == {1, 2}

\* raw sample values of the 4-d input
RawVals == {0, 1, NaN, PInf, NInf}

\* 4-d inputs: any first polarization plane, the further planes constant
RawInputs ==
  UNION {{[shape |-> <<p>> \o s,
           v |-> [c \in Idx(<<p>> \o s) |->
                    IF c[1] = 0 THEN f[Tail(c)] ELSE g[c[1]]]] :
            f \in [Idx(s) -> RawVals], g \in [1 .. p - 1 -> RawVals]} :
         p \in Planes, s \in Shapes}

\* headers: scale, offset and a linear coordinate mapping
Metas ==
  {[BSCALE |-> 1, BZERO |-> 0,
    CRVAL |-> <<10, 20, 30>>, CDELT |-> <<1, 2, 3>>, CRPIX |-> <<1, 1, 1>>],
   [BSCALE |-> 2, BZERO |-> 1,
    CRVAL |-> <<0, 5, 7>>, CDELT |-> <<0 - 1, 1, 2>>, CRPIX |-> <<1, 2, 1>>]}

\* the files a cube is built from: single-plane data come with the unscaled
\* header, data with more planes with the scaled one
Files ==
  {f \in RawInputs \X Metas : (f[1].shape[1] = 1) <=> (f[2].BSCALE = 1)}

\* requested regions: lower and upper both omitted; lower and upper free on
\* one axis ax, up to MaxOver beyond either end, and at the cube's edges on
\* the other two; and every axis overhanging both ends by MaxOver
Requests(shape) ==
  {[ax |-> ax, lower |-> None, upper |-> None] : ax \in 1 .. 3}
  \cup UNION {{[ax |-> ax,
                 lower |-> [i \in 1 .. 3 |-> IF i = ax THEN l ELSE 0],
                 upper |-> [i \in 1 .. 3 |-> IF i = ax THEN u ELSE shape[i]]] :
                  l \in (0 - MaxOver) .. (shape[ax] + MaxOver),
                  u \in (0 - MaxOver) .. (shape[ax] + MaxOver)} :
               ax \in 1 .. 3}
  \cup {[ax |-> 1,
         lower |-> <<0 - MaxOver, 0, 0>>,
         upper |-> [i \in 1 .. 3 |-> shape[i] + MaxOver]]}

\* a patch of the given shape whose cells differ along every axis
Patch(sh) ==
  [shape |-> sh,
   v |-> [c \in Idx(sh) |-> (1 + c[1] + c[2] + c[3]) % (MaxFinite + 1)]]

\* patches offered with a request: on the request's free axis the requested
\* extent and one cell less; the cube's extent on the other two
Patches(shape, q) ==
  LET lo == IF q.lower = None THEN 0 ELSE q.lower[q.ax]
      up == IF q.upper = None THEN shape[q.ax] ELSE q.upper[q.ax]
      n == IF up > lo THEN up - lo ELSE 0
  IN {Patch([i \in 1 .. 3 |-> IF i = q.ax THEN e ELSE shape[i]]) :
        e \in {n} \cup (IF n > 0 THEN {n - 1} ELSE {})}

\* ---------------------------------------------------------------- the state
VARIABLES
  data,   \* self.data: the 3-d samples
  mask,   \* self.mask: the validity mask handed to NDData (its shape)
  meta,   \* self.meta: the header
  ret     \* the call the caller has just made, with what it returned

vars == <<data, mask, meta, ret>>

NoCall == [op |-> "none"]

Init ==
  /\ \E f \in Files :
       LET cb == Cube_init(f[1], f[2])
       IN /\ ~cb.err
          /\ data = cb.data
          /\ mask = cb.mask
          /\ meta = cb.meta
  /\ ret = NoCall

Slice ==
  /\ ret = NoCall
  /\ \E q \in Requests(data.shape) :
       LET r == _slice(data.shape, q.lower, q.upper)
       IN ret' = [op |-> "_slice", lower |-> q.lower, upper |-> q.upper,
                  err |-> r.err, warn |-> r.warn, sli |-> r.sli]
  /\ UNCHANGED <<data, mask, meta>>

GetSlice ==
  /\ ret = NoCall
  /\ \E q \in Requests(data.shape) :
       LET r == get_slice(data, q.lower, q.upper)
       IN ret' = [op |-> "get_slice", lower |-> q.lower, upper |-> q.upper,
                  err |-> r.err, out |-> IF r.err THEN None ELSE r.out]
  /\ UNCHANGED <<data, mask, meta>>

GetFeatures ==
  /\ ret = NoCall
  /\ \E q \in Requests(data.shape) :
       LET r == get_features(data, meta, q.lower, q.upper)
       IN ret' = [op |-> "get_features", lower |-> q.lower, upper |-> q.upper,
                  err |-> r.err, out |-> IF r.err THEN None ELSE r.out]
  /\ UNCHANGED <<data, mask, meta>>

GetStacked ==
  /\ ret = NoCall
  /\ \E q \in Requests(data.shape) :
       LET r == get_stacked(data, q.lower, q.upper, q.ax - 1)
       IN ret' = [op |-> "get_stacked", lower |-> q.lower, upper |-> q.upper,
                  axes |-> q.ax - 1,
                  err |-> r.err, out |-> IF r.err THEN None ELSE r.out]
  /\ UNCHANGED <<data, mask, meta>>

AddFlux ==
  /\ ret = NoCall
  /\ \E q \in Requests(data.shape) :
       \E flux \in Patches(data.shape, q) :
         LET r == add_flux(data, flux, q.lower, q.upper)
         IN /\ data' = r.data
            /\ ret' = [op |-> "add_flux", lower |-> q.lower, upper |-> q.upper,
                       flux |-> flux, old |-> data, err |-> r.err]
  /\ UNCHANGED <<mask, meta>>

Max ==
  /\ ret = NoCall
  /\ LET r == Cube_max(data)
     IN ret' = [op |-> "max", err |-> r.err,
                out |-> IF r.err THEN None ELSE r.out]
  /\ UNCHANGED <<data, mask, meta>>

Min ==
  /\ ret = NoCall
  /\ LET r == Cube_min(data)
     IN ret' = [op |-> "min", err |-> r.err,
                out |-> IF r.err THEN None ELSE r.out]
  /\ UNCHANGED <<data, mask, meta>>

EmptyLike ==
  /\ ret = NoCall
  /\ LET r == empty_like(data, meta)
     IN ret' = [op |-> "empty_like", err |-> r.err,
                out |-> IF r.err THEN None ELSE r]
  /\ UNCHANGED <<data, mask, meta>>

\* the caller drops the result and goes on to its next call
Continue ==
  /\ ret # NoCall
  /\ ret' = NoCall
  /\ UNCHANGED <<data, mask, meta>>

Next ==
  \/ Slice
  \/ GetSlice
  \/ GetFeatures
  \/ GetStacked
  \/ AddFlux
  \/ Max
  \/ Min
  \/ EmptyLike
  \/ Continue

Spec == Init /\ [][Next]_vars

\* callers that only resolve regions, only inject flux, only look for extrema
NextResolve == Slice \/ Continue
SpecResolve == Init /\ [][NextResolve]_vars

NextFlux == AddFlux \/ Continue
SpecFlux == Init /\ [][NextFlux]_vars

NextExtrema == Max \/ Min \/ Continue
SpecExtrema == Init /\ [][NextExtrema]_vars

\* ---------------------------------------------------------------- claims
\* the request of the last call, with the defaults filled in
ReqLower == IF ret.lower = None THEN <<0, 0, 0>> ELSE ret.lower
ReqUpper == IF ret.upper = None THEN data.shape ELSE ret.upper
InCube(x, i) == 0 <= x /\ x <= data.shape[i]
ReqInside == \A i \in 1 .. 3 : InCube(ReqLower[i], i) /\ InCube(ReqUpper[i], i)

\* C1: every range that region resolution returns has its start and its stop
\* within [0, shape[i]] on its axis.
C1_RangesWithinShape ==
  (ret.op = "_slice" /\ ~ret.err) =>
     \A i \in 1 .. 3 : InCube(ret.sli[i][1], i) /\ InCube(ret.sli[i][2], i)

\* C4: an upper bound beyond the shape resolves to a stop equal to the shape
\* on that axis; a lower of (-k,0,0) with an upper beyond the shape on every
\* axis resolves to (0,0,0)..shape with two corrections logged.
C4_UpperClampedToShape ==
  (ret.op = "_slice" /\ \E i \in 1 .. 3 : ReqUpper[i] > data.shape[i]) =>
     /\ ~ret.err
     /\ \A i \in 1 .. 3 :
          ReqUpper[i] > data.shape[i] => ret.sli[i][2] = data.shape[i]
     /\ (ret.lower = <<0 - MaxOver, 0, 0>>
         /\ \A i \in 1 .. 3 : ReqUpper[i] > data.shape[i])
        => (ret.sli = [i \in 1 .. 3 |-> <<0, data.shape[i]>>] /\ ret.warn = 2)

\* C5: bounds that lie within the cube on every axis are returned unchanged
\* and no correction warning is logged.
C5_InsideUnchanged ==
  (ret.op = "_slice" /\ ReqInside) =>
     /\ ~ret.err
     /\ ret.warn = 0
     /\ ret.sli = [i \in 1 .. 3 |-> <<ReqLower[i], ReqUpper[i]>>]

C5_Witness ==
  /\ ret.op = "_slice"
  /\ ReqInside
  /\ \E i \in 1 .. 3 : 0 < ReqLower[i] /\ ReqLower[i] <= ReqUpper[i]
                       /\ ReqUpper[i] < data.shape[i]

\* the patch has the shape of the requested region
PatchFitsRequest ==
  \A i \in 1 .. 3 : ret.flux.shape[i] = ReqUpper[i] - ReqLower[i]

\* the cells of the requested region that lie in the cube
InRequest(c) == \A i \in 1 .. 3 : ReqLower[i] <= c[i] /\ c[i] < ReqUpper[i]

\* every cell of the request gained the patch cell at its position in the
\* request, every other cell kept its value
PatchAdded ==
  \A c \in Idx(data.shape) :
    data.v[c] = IF InRequest(c)
                THEN fadd(ret.old.v[c],
                          ret.flux.v[[i \in 1 .. 3 |-> c[i] - ReqLower[i]]])
                ELSE ret.old.v[c]

\* C2: add_flux with lower <= upper inside the cube and a patch of shape
\* upper - lower adds each patch cell to the region cell at the same relative
\* position and leaves every cell outside the region unchanged.
C2_AddInside ==
  (ret.op = "add_flux" /\ ReqInside /\ PatchFitsRequest) =>
     (~ret.err /\ PatchAdded)

C2_Witness ==
  /\ ret.op = "add_flux" /\ ReqInside /\ PatchFitsRequest
  /\ \E c \in Idx(data.shape) : InRequest(c) /\ data.v[c] # ret.old.v[c]
  /\ \E c \in Idx(data.shape) : ~InRequest(c)

\* the request overhangs exactly one cube edge, on axis i, by k >= 1 cells
Overhang(i, k) ==
  /\ \A j \in 1 .. 3 : j # i => InCube(ReqLower[j], j) /\ InCube(ReqUpper[j], j)
  /\ \/ ReqLower[i] = 0 - k /\ InCube(ReqUpper[i], i)
     \/ ReqUpper[i] = data.shape[i] + k /\ InCube(ReqLower[i], i)

\* C3: a patch overhanging exactly one cube edge by k cells on one axis is
\* added to the overlapping cube cells only, each receiving the patch cell at
\* its position in the requested region; no other cell changes.
C3_AddOverhang ==
  (ret.op = "add_flux" /\ PatchFitsRequest
     /\ \E i \in 1 .. 3 : \E k \in 1 .. MaxOver : Overhang(i, k)) =>
     (~ret.err /\ PatchAdded)

\* C9: when add_flux completes on a region that holds a cell, the patch crop
\* it selected has exactly the shape of the resolved region, so no patch cell
\* is broadcast to several cube cells.
C9_CropMatchesRegion ==
  (ret.op = "add_flux" /\ ~ret.err) =>
     LET r == add_flux(ret.old, ret.flux, ret.lower, ret.upper)
     IN (\A i \in 1 .. 3 : Extent(r.region[i]) > 0) =>
          \A i \in 1 .. 3 : Extent(r.crop[i]) = Extent(r.region[i])

\* C6: empty_like succeeds and returns a zero-filled cube of the same shape.
C6_EmptyLikeZeroCube ==
  ret.op = "empty_like" =>
     /\ ~ret.err
     /\ ret.out.data.shape = data.shape
     /\ \A c \in Idx(data.shape) : ret.out.data.v[c] = 0

\* C7: the validity mask has the shape of the samples, and both are 3-d.
C7_MaskShapeIsDataShape ==
  mask.shape = data.shape /\ Len(data.shape) = 3

HasFinite == \E c \in Idx(data.shape) : isfinite(data.v[c])

C10_FeaturesMatchSlice ==
  ret.op = "get_features" =>
     LET s == get_slice(data, ret.lower, ret.upper)
         rg == View(data.shape, _slice(data.shape, ret.lower, ret.upper).sli)
         cell(k) == LET c == unravel_index(k, s.out.shape)
                    IN [i \in 1 .. 3 |-> rg[i][1] + c[i]]
         rev(c) == <<c[3], c[2], c[1]>>
     IN /\ ret.err = s.err
        /\ ~ret.err =>
             /\ Len(ret.out) = size(s.out.shape)
             /\ \A k \in 1 .. Len(ret.out) :
                  ret.out[k] = wcs_pix2world(meta, rev(cell(k - 1)))

====
